---- MODULE Spec2Model ----
(***************************************************************************)
(* Model of the task-decorator layer of task-sdk                           *)
(* (airflow/sdk/bases/decorator.py): the unique task id allocator          *)
(* get_unique_task_id, and the _TaskDecorator builder with its partial /   *)
(* expand / expand_kwargs operations.                                      *)
(*                                                                         *)
(* Task ids are modelled as sequences of one-character strings, so that    *)
(* re.split and re.match act on them character by character as in Python.  *)
(*                                                                         *)
(* The XCom client of task-sdk (airflow/sdk/bases/xcom.py) is modelled     *)
(* with the supervisor it sends its requests to: each operation records    *)
(* the requests, responses, purges and warnings it made, in order.         *)
(***************************************************************************)
EXTENDS Integers, Sequences, FiniteSets, TLC

VARIABLES
    task_ids,   \* dag.task_ids: the ids of the tasks already added to the DAG
    last_id,    \* the last get_unique_task_id call: arguments, scope before, result
    run,        \* the current streak of node creations from one desired id
    sig,        \* the wrapped function's signature: parameter names, **kwargs or not
    val,        \* the last _validate_arg_names call: arguments and outcome
    ctx,        \* DagContext / TaskGroupContext of the definition script
    builders,   \* the _TaskDecorator objects the script holds: template, derived
    pc,         \* the script's position: "ready" for a call, or "returned" from one
    last,       \* the call the script has just made: arguments and outcome
    unmapped,   \* the last unmap of a mapped node: map index, kwargs and outcome
    bound,      \* the last DecoratedOperator signature check: arguments and outcome
    store,      \* the supervisor's XCom table: the encoded string of each row
    events,     \* the events of the last XCom operation, in order
    xcom        \* the last XCom operation: arguments and outcome

vars ==
    <<task_ids, last_id, run, sig, val, ctx, builders, pc, last, unmapped, bound,
      store, events, xcom>>

idVars == <<last_id, run>>

xcomVars == <<store, events, xcom>>

----------------------------------------------------------------------------
(* Bounds of the model *)

\* number of node creations explored by the id allocator specification
MaxCreate == 4

\* number of keyword arguments handed to _validate_arg_names on its own
MaxValidateArgs == 4

\* number of keyword arguments of one partial() or expand() call
MaxArgs == 2

\* number of elements of the sequence handed to expand_kwargs()
MaxElems == 2

\* number of tasks the definition script adds to its DAG
MaxNodes == 2

\* positional arguments passed to the wrapped function go up to this number
MaxPositional == 2

\* the map indexes of the supervisor's XCom table go up to this number
MaxXComIndex == 1

----------------------------------------------------------------------------
(* Characters and strings *)

Digits == <<"0", "1", "2", "3", "4", "5", "6", "7", "8", "9">>

IsDigit(c) == \E i \in 1..10 : Digits[i] = c

DigitVal(c) == (CHOOSE i \in 1..10 : Digits[i] = c) - 1

AllDigits(s) == \A i \in 1..Len(s) : IsDigit(s[i])

\* int("<digits>")
RECURSIVE StrToInt(_)
StrToInt(s) ==
    IF Len(s) = 0 THEN 0
    ELSE 10 * StrToInt(SubSeq(s, 1, Len(s) - 1)) + DigitVal(s[Len(s)])

\* f"{n}" for a natural number n
RECURSIVE IntToStr(_)
IntToStr(n) ==
    IF n < 10 THEN <<Digits[n + 1]>>
    ELSE IntToStr(n \div 10) \o <<Digits[(n % 10) + 1]>>

SetMax(S) == CHOOSE m \in S : \A n \in S : n <= m

\* the marker of "no task group" (TaskGroupContext gives None)
NoGroup == <<>>

\* TaskGroup.child_id: the id prefixed by the group id and a dot
child_id(task_group, task_id) == task_group \o <<".">> \o task_id

\* tg_task_id = task_group.child_id(task_id) if task_group else task_id
QualifiedId(task_group, task_id) ==
    IF task_group # NoGroup THEN child_id(task_group, task_id) ELSE task_id

\* the places where the pattern  __\d+$  matches in s
SuffixStarts(s) ==
    {i \in 1..Len(s) :
        /\ i + 2 <= Len(s)
        /\ s[i] = "_" /\ s[i + 1] = "_"
        /\ AllDigits(SubSeq(s, i + 2, Len(s)))}

\* re.split(r"__\d+$", s)[0]: s up to the leftmost match, s itself without one
SplitSuffix(s) ==
    IF SuffixStarts(s) = {} THEN s
    ELSE LET i == CHOOSE j \in SuffixStarts(s) : \A k \in SuffixStarts(s) : j <= k
         IN  SubSeq(s, 1, i - 1)

\* one pattern character against one subject character: the prefix is
\* interpolated into the pattern unescaped, so "." stands for any character
PatternCharMatches(p, c) == p = "." \/ p = c

\* re.match(rf"^{prefix}__(\d+)$", id) succeeds
SuffixMatch(prefix, id) ==
    LET n == Len(prefix) IN
    /\ Len(id) >= n + 3
    /\ \A i \in 1..n : PatternCharMatches(prefix[i], id[i])
    /\ id[n + 1] = "_" /\ id[n + 2] = "_"
    /\ AllDigits(SubSeq(id, n + 3, Len(id)))

\* _find_id_suffixes: int(match.group(1)) of every match, and the default 0
find_id_suffixes(tg_task_id, ids) ==
    LET prefix == SplitSuffix(tg_task_id) IN
    {StrToInt(SubSeq(id, Len(prefix) + 3, Len(id))) :
        id \in {j \in ids : SuffixMatch(prefix, j)}} \cup {0}

\* the mutated lookup: the used set is asked for the bare task id
MutUniqueIdBareLookup(task_id, has_dag, ids, task_group) ==
    IF ~has_dag THEN task_id
    ELSE IF task_id \notin ids THEN task_id
    ELSE SplitSuffix(task_id) \o <<"_", "_">>
            \o IntToStr(SetMax(find_id_suffixes(QualifiedId(task_group, task_id), ids)) + 1)

get_unique_task_id(task_id, has_dag, ids, task_group) ==
    IF ~has_dag THEN task_id
    ELSE LET tg_task_id == QualifiedId(task_group, task_id) IN
         IF tg_task_id \notin ids THEN task_id
         ELSE SplitSuffix(task_id) \o <<"_", "_">>
                \o IntToStr(SetMax(find_id_suffixes(tg_task_id, ids)) + 1)

----------------------------------------------------------------------------
(* Keyword arguments, values and errors *)

\* A value is known by its Python type; a list carries its items.
ListValue(items) == [kind |-> "list", items |-> items]
XComArgValue == [kind |-> "XComArg", items |-> <<>>]
IntValue(n) == [kind |-> "int", items |-> <<n>>]

\* is_mappable: a literal collection or a deferred reference, never a scalar
is_mappable(v) == v.kind \in {"list", "dict", "XComArg"}

\* type(value).__name__
TypeName(v) == v.kind

\* KNOWN_CONTEXT_KEYS, the reserved names of the execution context
KNOWN_CONTEXT_KEYS == {"ti", "ds"}

\* **kwargs as passed by a caller: the pairs in the order they were written
KwKeys(kwargs) == {kwargs[i].k : i \in 1..Len(kwargs)}

KwGet(kwargs, name) ==
    kwargs[CHOOSE i \in 1..Len(kwargs) : kwargs[i].k = name].v

KwKeySeq(kwargs) == [i \in 1..Len(kwargs) |-> kwargs[i].k]

\* the orders in which a Python set of names may be iterated
Orderings(S) ==
    {s \in [1..Cardinality(S) -> S] :
        \A i, j \in 1..Cardinality(S) : i # j => s[i] # s[j]}

\* the outcome of a call: nothing raised, or the exception with what it names
Passed == [err |-> "none", why |-> "", names |-> <<>>, tname |-> ""]

Raised(err, why, names, tname) ==
    [err |-> err, why |-> why, names |-> names, tname |-> tname]

\* the mutated validation: the unexpected names are reported one only
MutValidateFirstOnly(params, var_keyword, func, kwargs) ==
    IF var_keyword THEN {Passed}
    ELSE
        LET bad == {n \in params \cap KwKeys(kwargs) : ~is_mappable(KwGet(kwargs, n))}
            kwargs_left == SelectSeq(kwargs, LAMBDA p : p.k \notin params)
        IN
        IF func = "expand" /\ bad # {}
        THEN {Raised("ValueError", "unexpected type", <<n>>, TypeName(KwGet(kwargs, n))) :
                n \in bad}
        ELSE IF Len(kwargs_left) >= 1
        THEN {Raised("TypeError", "unexpected keyword argument",
                     <<kwargs_left[1].k>>, "")}
        ELSE {Passed}

\* ExpandableFactory._validate_arg_names: the outcomes the call may have (the
\* declared names are walked in set order, so with several unmappable values
\* any one of them may be the one reported)
ExpandableFactory_validate_arg_names(params, var_keyword, func, kwargs) ==
    IF var_keyword THEN {Passed}
    ELSE
        LET bad == {n \in params \cap KwKeys(kwargs) : ~is_mappable(KwGet(kwargs, n))}
            kwargs_left == SelectSeq(kwargs, LAMBDA p : p.k \notin params)
        IN
        IF func = "expand" /\ bad # {}
        THEN {Raised("ValueError", "unexpected type", <<n>>, TypeName(KwGet(kwargs, n))) :
                n \in bad}
        ELSE IF Len(kwargs_left) = 1
        THEN {Raised("TypeError", "unexpected keyword argument",
                     KwKeySeq(kwargs_left), "")}
        ELSE IF Len(kwargs_left) > 1
        THEN {Raised("TypeError", "unexpected keyword arguments",
                     KwKeySeq(kwargs_left), "")}
        ELSE {Passed}

\* the mutated validation: the context keys are looked at after the names
MutValidateContextLast(params, var_keyword, func, kwargs) ==
    LET context_keys_being_mapped == KNOWN_CONTEXT_KEYS \cap KwKeys(kwargs)
        base == ExpandableFactory_validate_arg_names(params, var_keyword, func, kwargs)
    IN
    IF base # {Passed} THEN base
    ELSE IF context_keys_being_mapped # {}
    THEN {Raised("ValueError", "context variable", o, "") :
            o \in Orderings(context_keys_being_mapped)}
    ELSE {Passed}

\* _TaskDecorator._validate_arg_names: context keys first, then the base class
TaskDecorator_validate_arg_names(params, var_keyword, func, kwargs) ==
    LET context_keys_being_mapped == KNOWN_CONTEXT_KEYS \cap KwKeys(kwargs) IN
    IF Cardinality(context_keys_being_mapped) = 1
    THEN {Raised("ValueError", "context variable", o, "") :
            o \in Orderings(context_keys_being_mapped)}
    ELSE IF context_keys_being_mapped # {}
    THEN {Raised("ValueError", "context variables", o, "") :
            o \in Orderings(context_keys_being_mapped)}
    ELSE ExpandableFactory_validate_arg_names(params, var_keyword, func, kwargs)

----------------------------------------------------------------------------
(* DecoratedOperator.__init__: the arguments are bound to the signature *)

\* a parameter of the wrapped function: its name and its default, which is
\* "empty" (none), "None" or "value" (any other default)
Param(name, default) == [name |-> name, default |-> default]

ParamNames(parameters) == {parameters[i].name : i \in 1..Len(parameters)}

\* context key parameters whose default is neither None nor empty
faulty_parameters(parameters) ==
    SelectSeq(parameters, LAMBDA p : p.name \in KNOWN_CONTEXT_KEYS /\ p.default = "value")

\* param.replace(default=None) for the context key parameters
replace_defaults(parameters) ==
    [i \in 1..Len(parameters) |->
        IF parameters[i].name \in KNOWN_CONTEXT_KEYS
        THEN Param(parameters[i].name, "None") ELSE parameters[i]]

\* signature.replace(parameters=...) raises ValueError when a parameter
\* without a default follows one that has a default
ValidOrder(parameters) ==
    \A i, j \in 1..Len(parameters) :
        (i < j /\ parameters[i].default # "empty") => parameters[j].default # "empty"

\* signature.bind(*op_args, **op_kwargs), or bind_partial when partial_mode:
\* op_args counts the positional arguments, op_kwargs holds the keyword names
signature_bind(parameters, var_keyword, op_args, op_kwargs, partial_mode) ==
    LET positional == {parameters[i].name : i \in 1..op_args \cap 1..Len(parameters)}
        supplied == positional \cup op_kwargs
        missing == SelectSeq(parameters,
                             LAMBDA p : p.default = "empty" /\ p.name \notin supplied)
    IN
    IF op_kwargs \cap positional # {}
    THEN Raised("TypeError", "multiple values for argument",
                <<SelectSeq([i \in 1..Len(parameters) |-> parameters[i].name],
                            LAMBDA n : n \in op_kwargs \cap positional)[1]>>, "")
    ELSE IF op_args > Len(parameters)
    THEN Raised("TypeError", "too many positional arguments", <<>>, "")
    ELSE IF ~partial_mode /\ missing # <<>>
    THEN Raised("TypeError", "missing a required argument", <<missing[1].name>>, "")
    ELSE IF ~var_keyword /\ op_kwargs \ ParamNames(parameters) # {}
    THEN Raised("TypeError", "got an unexpected keyword argument", <<>>, "")
    ELSE Passed

\* the mutated binding: bind_partial is used in both modes
MutCheckAlwaysPartial(parameters, var_keyword, op_args, op_kwargs, validation_only) ==
    IF faulty_parameters(parameters) # <<>>
    THEN Raised("ValueError", "context key default",
                <<faulty_parameters(parameters)[1].name>>, "")
    ELSE IF ~ValidOrder(replace_defaults(parameters))
    THEN Raised("ValueError", "signature broke", <<>>, "")
    ELSE signature_bind(replace_defaults(parameters), var_keyword, op_args, op_kwargs, TRUE)

\* the signature check of DecoratedOperator.__init__; validation_only is the
\* _airflow_mapped_validation_only flag
DecoratedOperator_check(parameters, var_keyword, op_args, op_kwargs, validation_only) ==
    IF faulty_parameters(parameters) # <<>>
    THEN Raised("ValueError", "context key default",
                <<faulty_parameters(parameters)[1].name>>, "")
    ELSE IF ~ValidOrder(replace_defaults(parameters))
    THEN Raised("ValueError", "signature broke", <<>>, "")
    ELSE signature_bind(replace_defaults(parameters), var_keyword, op_args, op_kwargs,
                        validation_only)

----------------------------------------------------------------------------
(* The signatures and keyword arguments the model draws from *)

\* the signatures of the wrapped function the model draws from
Signatures ==
    { [params |-> {"x", "y"}, var_keyword |-> FALSE],
      [params |-> {"x", "kwargs"}, var_keyword |-> TRUE] }

NoSignature == [params |-> {}, var_keyword |-> FALSE]

\* the parameters of the wrapped function, none of which has a default
SigParameters(s) ==
    LET names == SelectSeq(<<"x", "y">>, LAMBDA n : n \in s.params) IN
    [i \in 1..Len(names) |-> Param(names[i], "empty")]

\* the keyword arguments of at most n pairs, no key twice
RECURSIVE KwargsUpTo(_, _, _)
KwargsUpTo(n, names, values) ==
    IF n = 0 THEN {<<>>}
    ELSE LET shorter == KwargsUpTo(n - 1, names, values) IN
         shorter \cup
            UNION {{Append(kw, [k |-> k, v |-> v]) :
                        k \in names \ KwKeys(kw), v \in values} :
                    kw \in {s \in shorter : Len(s) = n - 1}}

----------------------------------------------------------------------------
(* The _TaskDecorator builder *)

\* Python dicts keyed by strings
EmptyMap == [k \in {} |-> 0]

MapGet(m, k, default) == IF k \in DOMAIN m THEN m[k] ELSE default

\* {**f, **g}
Overlay(f, g) ==
    [k \in (DOMAIN f) \cup (DOMAIN g) |-> IF k \in DOMAIN g THEN g[k] ELSE f[k]]

Without(f, keys) == [k \in (DOMAIN f) \ keys |-> f[k]]

KwToMap(kwargs) == [n \in KwKeys(kwargs) |-> KwGet(kwargs, n)]

\* TriggerRule
ALWAYS == "always"
ALL_SUCCESS == "all_success"
ALL_DONE_SETUP_SUCCESS == "all_done_setup_success"

\* the names of the model in sorted() order
NameOrder == <<"ds", "kwargs", "op_kwargs", "task_id", "ti", "trigger_rule",
               "w", "x", "y", "z">>

Sorted(S) == SelectSeq(NameOrder, LAMBDA n : n \in S)

\* prevent_duplicates(kwargs1, kwargs2, fail_reason=...), on the key sets
prevent_duplicates(keys1, keys2, fail_reason) ==
    LET duplicated_keys == keys1 \cap keys2 IN
    IF duplicated_keys = {} THEN Passed
    ELSE IF Cardinality(duplicated_keys) = 1
    THEN Raised("TypeError", fail_reason \o " argument", Sorted(duplicated_keys), "")
    ELSE Raised("TypeError", fail_reason \o " arguments", Sorted(duplicated_keys), "")

\* get_merged_defaults: the DAG's default_args, the task's own laid over them
get_merged_defaults(dag_default_args, task_default_args) ==
    Overlay(dag_default_args, task_default_args)

NoNode ==
    [task_id |-> <<>>, partial_kwargs |-> EmptyMap, expand_input_type |-> "",
     expand_input |-> <<>>, disallow_kwargs_override |-> FALSE]

\* what a call leaves behind: the outcome, the builder it was called on as it
\* is afterwards, the builder it returned, the node it created
Outcome(res, self, made, node) ==
    [res |-> res, self |-> self, made |-> made, node |-> node]

Fails(self, res) == Outcome(res, self, self, NoNode)

\* _TaskDecorator._expand: the mapped operator built from the builder's kwargs
expand_node(self, ids, expand_input_type, expand_input, strict) ==
    LET task_kwargs == Without(self.kwargs, {"default_args"})
        default_args == get_merged_defaults(ctx.dag_default_args,
                                            MapGet(self.kwargs, "default_args", EmptyMap))
        flags == [is_setup |-> self.is_setup, is_teardown |-> self.is_teardown,
                  on_failure_fail_dagrun |-> self.on_failure_fail_dagrun]
        merged == Overlay(Overlay(flags, default_args), task_kwargs)
        task_id == get_unique_task_id(merged["task_id"], ctx.has_dag, ids, ctx.group)
        partial_kwargs == Overlay([op_kwargs |-> EmptyMap], Without(merged, {"task_id"}))
    IN
    [task_id |-> QualifiedId(ctx.group, task_id),
     partial_kwargs |-> partial_kwargs,
     expand_input_type |-> expand_input_type,
     expand_input |-> expand_input,
     disallow_kwargs_override |-> strict]

\* the pool_slots test of _expand: the error names the final task id and,
\* when there is a DAG, the DAG
pool_slots_check(node) ==
    IF "pool_slots" \in DOMAIN node.partial_kwargs /\ node.partial_kwargs["pool_slots"] < 1
    THEN Raised("ValueError",
                IF ctx.has_dag THEN "pool slots cannot be less than 1, in dag"
                ELSE "pool slots cannot be less than 1",
                <<node.task_id>>, "")
    ELSE Passed

\* the mutated _expand: pool_slots is not tested
MutExpandNoPoolCheck(self, ids, expand_input_type, expand_input, strict) ==
    {Outcome(Passed, self, self,
             expand_node(self, ids, expand_input_type, expand_input, strict))}

\* self._expand(...): the mapped node, or the error of the pool_slots test
TaskDecorator_expand(self, ids, expand_input_type, expand_input, strict) ==
    LET node == expand_node(self, ids, expand_input_type, expand_input, strict) IN
    IF pool_slots_check(node) # Passed
    THEN {Fails(self, pool_slots_check(node))}
    ELSE {Outcome(Passed, self, self, node)}

HasXComArg(map_kwargs) == \E i \in 1..Len(map_kwargs) : map_kwargs[i].v.kind = "XComArg"

\* the checks of expand() after the empty-argument check
expand_checked(self, ids, map_kwargs) ==
    LET checked == TaskDecorator_validate_arg_names(sig.params, sig.var_keyword,
                                                    "expand", map_kwargs)
        dup == prevent_duplicates(DOMAIN self.kwargs, KwKeys(map_kwargs),
                                  "mapping already partial")
    IN
    IF checked # {Passed} THEN {Fails(self, r) : r \in checked}
    ELSE IF dup # Passed THEN {Fails(self, dup)}
    ELSE IF self.is_teardown /\ "trigger_rule" \in DOMAIN self.kwargs
    THEN {Fails(self, Raised("ValueError", "teardown trigger rule", <<>>, ""))}
    ELSE
        LET after == IF self.is_teardown
                     THEN [self EXCEPT !.kwargs =
                              Overlay(@, [trigger_rule |-> ALL_DONE_SETUP_SUCCESS])]
                     ELSE self
        IN TaskDecorator_expand(after, ids, "dict-of-lists", map_kwargs, FALSE)

\* the mutated expand(): the empty-argument check is missing
MutExpandNoEmptyCheck(self, ids, map_kwargs) ==
    IF MapGet(self.kwargs, "trigger_rule", "") = ALWAYS /\ HasXComArg(map_kwargs)
    THEN {Fails(self, Raised("ValueError", "always", <<>>, ""))}
    ELSE expand_checked(self, ids, map_kwargs)

\* _TaskDecorator.expand(**map_kwargs): the outcomes the call may have
expand(self, ids, map_kwargs) ==
    IF MapGet(self.kwargs, "trigger_rule", "") = ALWAYS /\ HasXComArg(map_kwargs)
    THEN {Fails(self, Raised("ValueError", "always", <<>>, ""))}
    ELSE IF map_kwargs = <<>>
    THEN {Fails(self, Raised("TypeError", "no arguments to expand against", <<>>, ""))}
    ELSE expand_checked(self, ids, map_kwargs)

\* the argument of expand_kwargs(): an XComArg, a list of elements (each an
\* XComArg, a dict or something else), or some other object
XComArgElem == [kind |-> "XComArg", map |-> EmptyMap]
DictElem(m) == [kind |-> "dict", map |-> m]
IntElem == [kind |-> "int", map |-> EmptyMap]

XComArgArg == [kind |-> "XComArg", elems |-> <<>>]
ListArg(elems) == [kind |-> "list", elems |-> elems]
IntArg == [kind |-> "int", elems |-> <<>>]

\* the first test of expand_kwargs(), made when the trigger rule is 'always'
\* and the argument is no XComArg: the values of the elements are walked
always_test(kwargs) ==
    IF kwargs.kind # "list"
    THEN Raised("TypeError", "object is not iterable", <<>>, kwargs.kind)
    ELSE IF \E i \in 1..Len(kwargs.elems) : kwargs.elems[i].kind \notin {"XComArg", "dict"}
    THEN Raised("AttributeError", "object has no attribute 'values'", <<>>, "int")
    ELSE IF \E i \in 1..Len(kwargs.elems) :
               /\ kwargs.elems[i].kind = "dict"
               /\ \E n \in DOMAIN kwargs.elems[i].map :
                     kwargs.elems[i].map[n].kind = "XComArg"
    THEN Raised("ValueError", "always", <<>>, "")
    ELSE Passed

\* the type test of expand_kwargs()
shape_test(kwargs) ==
    IF kwargs.kind = "list"
    THEN IF \E i \in 1..Len(kwargs.elems) : kwargs.elems[i].kind \notin {"XComArg", "dict"}
         THEN Raised("TypeError", "expected XComArg or list[dict]", <<>>, kwargs.kind)
         ELSE Passed
    ELSE IF kwargs.kind # "XComArg"
    THEN Raised("TypeError", "expected XComArg or list[dict]", <<>>, kwargs.kind)
    ELSE Passed

\* _TaskDecorator.expand_kwargs(kwargs, strict=...): the outcome of the call
expand_kwargs(self, ids, kwargs, strict) ==
    LET first == IF MapGet(self.kwargs, "trigger_rule", "") = ALWAYS
                    /\ kwargs.kind # "XComArg"
                 THEN always_test(kwargs) ELSE Passed
    IN
    IF first # Passed THEN {Fails(self, first)}
    ELSE IF shape_test(kwargs) # Passed THEN {Fails(self, shape_test(kwargs))}
    ELSE TaskDecorator_expand(self, ids, "list-of-dicts", kwargs, strict)

\* the mutated partial(): the keys bound earlier are not looked at
MutPartialNoDuplicateCheck(self, kwargs) ==
    LET checked == TaskDecorator_validate_arg_names(sig.params, sig.var_keyword,
                                                    "partial", kwargs)
        old_kwargs == MapGet(self.kwargs, "op_kwargs", EmptyMap)
    IN
    IF checked # {Passed} THEN {Fails(self, r) : r \in checked}
    ELSE {Outcome(Passed, self,
                  [self EXCEPT !.kwargs =
                      Overlay(@, [op_kwargs |-> Overlay(KwToMap(kwargs), old_kwargs)])],
                  NoNode)}

\* _TaskDecorator.partial(**kwargs): the outcomes the call may have
partial(self, kwargs) ==
    LET checked == TaskDecorator_validate_arg_names(sig.params, sig.var_keyword,
                                                    "partial", kwargs)
        old_kwargs == MapGet(self.kwargs, "op_kwargs", EmptyMap)
        dup == prevent_duplicates(DOMAIN old_kwargs, KwKeys(kwargs), "duplicate partial")
    IN
    IF checked # {Passed} THEN {Fails(self, r) : r \in checked}
    ELSE IF dup # Passed THEN {Fails(self, dup)}
    ELSE {Outcome(Passed, self,
                  [self EXCEPT !.kwargs =
                      Overlay(@, [op_kwargs |-> Overlay(KwToMap(kwargs), old_kwargs)])],
                  NoNode)}

\* the mutated override(): the builder's own kwargs win over the new ones
MutOverrideOriginalWins(self, kwargs) ==
    Outcome(Passed, self, [self EXCEPT !.kwargs = Overlay(kwargs, @)], NoNode)

\* _TaskDecorator.override(**kwargs)
override(self, kwargs) ==
    Outcome(Passed, self, [self EXCEPT !.kwargs = Overlay(@, kwargs)], NoNode)

\* BaseOperator.__init__ refuses pool_slots below 1
BaseOperator_pool_slots(kwargs, task_id) ==
    IF "pool_slots" \in DOMAIN kwargs /\ kwargs["pool_slots"] < 1
    THEN Raised("ValueError",
                IF ctx.has_dag THEN "pool slots cannot be less than 1, in dag"
                ELSE "pool slots cannot be less than 1",
                <<task_id>>, "")
    ELSE Passed

\* the operator a direct call builds from the builder's kwargs: the default
\* arguments, the kwargs laid over them, the call's arguments as op_kwargs
call_node(self, ids, op_kwargs) ==
    LET default_args == get_merged_defaults(ctx.dag_default_args,
                                            MapGet(self.kwargs, "default_args", EmptyMap))
        flags == [is_setup |-> self.is_setup, is_teardown |-> self.is_teardown,
                  on_failure_fail_dagrun |-> self.on_failure_fail_dagrun]
        merged == Overlay(Overlay(flags, default_args),
                          Without(self.kwargs, {"default_args"}))
        task_id == get_unique_task_id(self.kwargs["task_id"], ctx.has_dag, ids, ctx.group)
    IN
    [task_id |-> QualifiedId(ctx.group, task_id),
     partial_kwargs |-> Overlay(Without(merged, {"task_id"}),
                                [op_kwargs |-> KwToMap(op_kwargs)]),
     expand_input_type |-> "none",
     expand_input |-> <<>>,
     disallow_kwargs_override |-> FALSE]

\* the construction of the operator in __call__, with the kwargs as the first
\* statements of __call__ left them
call_built(self, ids, op_kwargs) ==
    LET built == DecoratedOperator_check(SigParameters(sig), sig.var_keyword, 0,
                                         KwKeys(op_kwargs), FALSE)
        node == call_node(self, ids, op_kwargs)
        pool == BaseOperator_pool_slots(node.partial_kwargs, node.task_id)
    IN
    IF "op_kwargs" \in DOMAIN self.kwargs
    THEN {Fails(self, Raised("TypeError", "multiple values for keyword argument",
                             <<"op_kwargs">>, ""))}
    ELSE IF built # Passed THEN {Fails(self, built)}
    ELSE IF pool # Passed THEN {Fails(self, pool)}
    ELSE {Outcome(Passed, self, self, node)}

\* _TaskDecorator.__call__(**kwargs): the outcomes the call may have
task_decorator_call(self, ids, op_kwargs) ==
    IF self.is_teardown /\ "trigger_rule" \in DOMAIN self.kwargs
    THEN {Fails(self, Raised("ValueError", "teardown trigger rule", <<>>, ""))}
    ELSE
        LET forced == IF self.is_teardown
                      THEN [self EXCEPT !.kwargs =
                               Overlay(@, [trigger_rule |-> ALL_DONE_SETUP_SUCCESS])]
                      ELSE self
            after == [forced EXCEPT !.kwargs = Without(@, {"on_failure_fail_dagrun"})]
        IN call_built(after, ids, op_kwargs)

----------------------------------------------------------------------------
(* DecoratedMappedOperator: the instances of a mapped node *)

\* the input of the node is known when the DAG is parsed: literal lists in a
\* dict-of-lists, literal dicts of literal values in a list-of-dicts
ParseTimeInput(node) ==
    IF node.expand_input_type = "dict-of-lists"
    THEN \A i \in 1..Len(node.expand_input) : node.expand_input[i].v.kind = "list"
    ELSE /\ node.expand_input.kind = "list"
         /\ \A i \in 1..Len(node.expand_input.elems) :
               /\ node.expand_input.elems[i].kind = "dict"
               /\ \A n \in DOMAIN node.expand_input.elems[i].map :
                     node.expand_input.elems[i].map[n].kind # "XComArg"

\* the product of the lengths of the lists from the i-th key on
RECURSIVE LengthsFrom(_, _)
LengthsFrom(map_kwargs, i) ==
    IF i > Len(map_kwargs) THEN 1
    ELSE Len(map_kwargs[i].v.items) * LengthsFrom(map_kwargs, i + 1)

\* the number of instances of the node
total_map_length(node) ==
    IF node.expand_input_type = "dict-of-lists"
    THEN LengthsFrom(node.expand_input, 1)
    ELSE Len(node.expand_input.elems)

\* expand_input.resolve: the keyword arguments of the instance map_index; in
\* a dict-of-lists the last key written varies fastest
resolve(node, map_index) ==
    IF node.expand_input_type = "dict-of-lists"
    THEN LET kw == node.expand_input
             pos(n) == CHOOSE i \in 1..Len(kw) : kw[i].k = n
             item(i) == kw[i].v.items[((map_index \div LengthsFrom(kw, i + 1))
                                          % Len(kw[i].v.items)) + 1]
         IN [n \in KwKeys(kw) |-> IntValue(item(pos(n)))]
    ELSE node.expand_input.elems[map_index + 1].map

\* the mutated unmap: the partial kwargs are laid over the mapped ones
MutUnmapPartialWins(node, mapped_op_kwargs, strict) ==
    LET partial_op_kwargs == node.partial_kwargs["op_kwargs"]
        dup == prevent_duplicates(DOMAIN partial_op_kwargs, DOMAIN mapped_op_kwargs,
                                  "mapping already partial")
    IN
    IF strict /\ dup # Passed
    THEN [res |-> dup, op_kwargs |-> EmptyMap]
    ELSE [res |-> Passed, op_kwargs |-> Overlay(mapped_op_kwargs, partial_op_kwargs)]

\* the mutated unmap: the partial kwargs are left out
MutUnmapDropsPartial(node, mapped_op_kwargs, strict) ==
    LET partial_op_kwargs == node.partial_kwargs["op_kwargs"]
        dup == prevent_duplicates(DOMAIN partial_op_kwargs, DOMAIN mapped_op_kwargs,
                                  "mapping already partial")
    IN
    IF strict /\ dup # Passed
    THEN [res |-> dup, op_kwargs |-> EmptyMap]
    ELSE [res |-> Passed, op_kwargs |-> mapped_op_kwargs]

\* DecoratedMappedOperator._get_unmap_kwargs(mapped_kwargs, strict=...): the
\* op_kwargs of the instance, or the error raised
get_unmap_kwargs(node, mapped_op_kwargs, strict) ==
    LET partial_op_kwargs == node.partial_kwargs["op_kwargs"]
        dup == prevent_duplicates(DOMAIN partial_op_kwargs, DOMAIN mapped_op_kwargs,
                                  "mapping already partial")
    IN
    IF strict /\ dup # Passed
    THEN [res |-> dup, op_kwargs |-> EmptyMap]
    ELSE [res |-> Passed, op_kwargs |-> Overlay(partial_op_kwargs, mapped_op_kwargs)]

----------------------------------------------------------------------------
(* The XCom client (airflow/sdk/bases/xcom.py) and the supervisor it asks *)

\* Python values handed to XCom.set: None, an int, a str, a flat list
PyNone == [type |-> "NoneType", n |-> 0, s |-> <<>>, items |-> <<>>]

PyInt(n) == [type |-> "int", n |-> n, s |-> <<>>, items |-> <<>>]

PyStr(s) == [type |-> "str", n |-> 0, s |-> s, items |-> <<>>]

PyList(items) == [type |-> "list", n |-> 0, s |-> <<>>, items |-> items]

\* ",".join(parts)
RECURSIVE JoinComma(_)
JoinComma(parts) ==
    IF Len(parts) = 0 THEN <<>>
    ELSE IF Len(parts) = 1 THEN parts[1]
    ELSE parts[1] \o <<",">> \o JoinComma(Tail(parts))

\* serde.serialize: the value as an encoded string
RECURSIVE serialize(_)
serialize(v) ==
    IF v.type = "list"
    THEN <<"[">> \o JoinComma([i \in 1..Len(v.items) |-> serialize(v.items[i])]) \o <<"]">>
    ELSE IF v.type = "NoneType" THEN <<"n", "u", "l", "l">>
    ELSE IF v.type = "int" THEN IntToStr(v.n)
    ELSE <<"'">> \o v.s \o <<"'">>

\* the pieces of s between its commas
RECURSIVE SplitComma(_)
SplitComma(s) ==
    IF \A i \in 1..Len(s) : s[i] # ","
    THEN <<s>>
    ELSE LET i == CHOOSE j \in 1..Len(s) : s[j] = "," /\ \A k \in 1..(j - 1) : s[k] # ","
         IN  <<SubSeq(s, 1, i - 1)>> \o SplitComma(SubSeq(s, i + 1, Len(s)))

\* serde.deserialize: the value an encoded string stands for
RECURSIVE deserialize(_)
deserialize(s) ==
    IF s[1] = "["
    THEN LET inner == SubSeq(s, 2, Len(s) - 1) IN
         IF inner = <<>> THEN PyList(<<>>)
         ELSE LET parts == SplitComma(inner) IN
              PyList([i \in 1..Len(parts) |-> deserialize(parts[i])])
    ELSE IF s = <<"n", "u", "l", "l">> THEN PyNone
    ELSE IF s[1] = "'" THEN PyStr(SubSeq(s, 2, Len(s) - 1))
    ELSE PyInt(StrToInt(s))

\* BaseXCom.serialize_value: the other arguments are for custom backends
serialize_value(value) == serialize(value)

\* None as a message field or an argument; a map index i is <<i>>
None == <<>>

\* the default of set(): map_index=-1, the index of a task that is not mapped
UNMAPPED == -1

\* the messages of the channel: requests and responses have the same shape,
\* a field a message kind does not have is left at its empty value
Message(kind, key, dag_id, task_id, run_id, map_index, value, include_prior_dates, root) ==
    [kind |-> kind, key |-> key, dag_id |-> dag_id, task_id |-> task_id,
     run_id |-> run_id, map_index |-> map_index, value |-> value,
     include_prior_dates |-> include_prior_dates, root |-> root]

SetXCom(key, value, dag_id, task_id, run_id, map_index) ==
    Message("SetXCom", key, dag_id, task_id, run_id, map_index, value, FALSE, <<>>)

GetXCom(key, dag_id, task_id, run_id, map_index, include_prior_dates) ==
    Message("GetXCom", key, dag_id, task_id, run_id, map_index, None,
            include_prior_dates, <<>>)

\* start, stop and step are None in every request get_all sends
GetXComSequenceSlice(key, dag_id, task_id, run_id, include_prior_dates) ==
    Message("GetXComSequenceSlice", key, dag_id, task_id, run_id, None, None,
            include_prior_dates, <<>>)

\* the request is built without a map index: the field keeps its default
DeleteXCom(key, dag_id, task_id, run_id) ==
    Message("DeleteXCom", key, dag_id, task_id, run_id, None, None, FALSE, <<>>)

XComResult(key, value) ==
    Message("XComResult", key, "", "", "", None, value, FALSE, <<>>)

XComSequenceSliceResult(root) ==
    Message("XComSequenceSliceResult", "", "", "", "", None, None, FALSE, root)

OKResponse == Message("OKResponse", "", "", "", "", None, None, FALSE, <<>>)

\* BaseXCom.deserialize_value(result): deserialize(result.value)
deserialize_value(result) == deserialize(result.value)

\* the row a request addresses: no map index stands for the unmapped one
AddressOf(msg) ==
    [key |-> msg.key, dag_id |-> msg.dag_id, task_id |-> msg.task_id,
     run_id |-> msg.run_id,
     map_index |-> IF msg.map_index = None THEN UNMAPPED ELSE msg.map_index[1]]

\* the keys and task instances the operations are called for
XComRows == {[key |-> "return_value", dag_id |-> "d", task_id |-> "t", run_id |-> "r"]}

\* the rows of the supervisor's table
Addresses ==
    {AddressOf(Message("", row.key, row.dag_id, row.task_id, row.run_id, <<i>>,
                       None, FALSE, <<>>)) :
        row \in XComRows, i \in UNMAPPED..MaxXComIndex}

EmptyStore == [a \in Addresses |-> None]

\* the values of the mapped instances 0, 1, ... of a task, in that order
RECURSIVE SliceFrom(_, _, _)
SliceFrom(st, msg, i) ==
    IF i > MaxXComIndex THEN <<>>
    ELSE LET a == AddressOf([msg EXCEPT !.map_index = <<i>>]) IN
         (IF st[a] # None THEN <<st[a]>> ELSE <<>>) \o SliceFrom(st, msg, i + 1)

\* the supervisor answers a request as its table says: the response, and the
\* table after it
faithful(st, msg) ==
    IF msg.kind = "SetXCom"
    THEN [resp |-> OKResponse, store |-> [st EXCEPT ![AddressOf(msg)] = msg.value]]
    ELSE IF msg.kind = "GetXCom"
    THEN [resp |-> XComResult(msg.key, st[AddressOf(msg)]), store |-> st]
    ELSE IF msg.kind = "GetXComSequenceSlice"
    THEN [resp |-> XComSequenceSliceResult(SliceFrom(st, msg, 0)), store |-> st]
    ELSE [resp |-> OKResponse, store |-> [st EXCEPT ![AddressOf(msg)] = None]]

\* SUPERVISOR_COMMS.send(msg): the faithful answer, or a response of a kind
\* the request does not call for, with nothing stored
SUPERVISOR_COMMS_send(st, msg) ==
    {faithful(st, msg)} \cup
    {[resp |-> resp, store |-> st] :
        resp \in {r \in {OKResponse, XComResult(msg.key, None), XComSequenceSliceResult(<<>>)} :
                     r.kind # faithful(st, msg).resp.kind}}

\* an event of an operation: "send", "recv", "purge" or "warning", with the
\* message sent, received or purged with
Event(e, msg) == [e |-> e, msg |-> msg]

\* how an operation ends: returns ret, or raises
Return(ret, evs, st) == [raised |-> "none", ret |-> ret, trace |-> evs, store |-> st]

Raise(err, evs, st) == [raised |-> err, ret |-> PyNone, trace |-> evs, store |-> st]

\* the mutated set: a call without a map index sends none
MutSetNoDefault(st, key, value, dag_id, task_id, run_id, map_index) ==
    LET msg == SetXCom(key, serialize_value(value), dag_id, task_id, run_id, map_index) IN
    {Return(PyNone, <<Event("send", msg), Event("recv", r.resp)>>, r.store) :
        r \in SUPERVISOR_COMMS_send(st, msg)}

\* the mutated set: the request always addresses the unmapped row
MutSetAlwaysUnmapped(st, key, value, dag_id, task_id, run_id, map_index) ==
    LET msg == SetXCom(key, serialize_value(value), dag_id, task_id, run_id, <<UNMAPPED>>)
    IN
    {Return(PyNone, <<Event("send", msg), Event("recv", r.resp)>>, r.store) :
        r \in SUPERVISOR_COMMS_send(st, msg)}

\* BaseXCom.set; map_index: int = -1, so a call without one passes -1
XCom_set(st, key, value, dag_id, task_id, run_id, map_index) ==
    LET index == IF map_index = None THEN <<UNMAPPED>> ELSE map_index
        msg == SetXCom(key, serialize_value(value), dag_id, task_id, run_id, index)
    IN
    {Return(PyNone, <<Event("send", msg), Event("recv", r.resp)>>, r.store) :
        r \in SUPERVISOR_COMMS_send(st, msg)}

\* the mutated get_one: a result without a value is an error
MutGetOneAbsentRaises(st, key, dag_id, task_id, run_id, map_index, include_prior_dates) ==
    LET msg == GetXCom(key, dag_id, task_id, run_id, map_index, include_prior_dates) IN
    {LET evs == <<Event("send", msg), Event("recv", r.resp)>> IN
     IF r.resp.kind # "XComResult" THEN Raise("TypeError", evs, r.store)
     ELSE IF r.resp.value # None THEN Return(deserialize_value(r.resp), evs, r.store)
     ELSE Raise("KeyError", evs \o <<Event("warning", OKResponse)>>, r.store) :
        r \in SUPERVISOR_COMMS_send(st, msg)}

\* BaseXCom.get_one
get_one(st, key, dag_id, task_id, run_id, map_index, include_prior_dates) ==
    LET msg == GetXCom(key, dag_id, task_id, run_id, map_index, include_prior_dates) IN
    {LET evs == <<Event("send", msg), Event("recv", r.resp)>> IN
     IF r.resp.kind # "XComResult" THEN Raise("TypeError", evs, r.store)
     ELSE IF r.resp.value # None THEN Return(deserialize_value(r.resp), evs, r.store)
     ELSE Return(PyNone, evs \o <<Event("warning", OKResponse)>>, r.store) :
        r \in SUPERVISOR_COMMS_send(st, msg)}

\* BaseXCom.get_value: ti_key holds dag_id, task_id, run_id and an int map_index
get_value(st, ti_key, key) ==
    get_one(st, key, ti_key.dag_id, ti_key.task_id, ti_key.run_id,
            <<ti_key.map_index>>, FALSE)

\* BaseXCom.get_all
get_all(st, key, dag_id, task_id, run_id, include_prior_dates) ==
    LET msg == GetXComSequenceSlice(key, dag_id, task_id, run_id, include_prior_dates) IN
    {LET evs == <<Event("send", msg), Event("recv", r.resp)>> IN
     IF r.resp.kind # "XComSequenceSliceResult" THEN Raise("TypeError", evs, r.store)
     ELSE IF r.resp.root = <<>> THEN Return(PyNone, evs, r.store)
     ELSE Return(PyList([i \in 1..Len(r.resp.root) |->
                            deserialize_value(XComResult("", r.resp.root[i]))]),
                 evs, r.store) :
        r \in SUPERVISOR_COMMS_send(st, msg)}

\* BaseXCom._get_xcom_db_ref: the response itself is the reference
get_xcom_db_ref(st, key, dag_id, task_id, run_id, map_index) ==
    LET msg == GetXCom(key, dag_id, task_id, run_id, map_index, FALSE) IN
    {LET evs == <<Event("send", msg), Event("recv", r.resp)>> IN
     IF r.resp.kind # "XComResult" THEN Raise("TypeError", evs, r.store)
     ELSE Return(r.resp, evs, r.store) :
        r \in SUPERVISOR_COMMS_send(st, msg)}

\* purge(xcom): nothing in BaseXCom; a backend that overrides it removes the
\* data the reference points to, and may fail doing so
purge(xcom_result) == {"none", "Exception"}

\* the mutated delete: the delete request goes out before the purge
MutDeleteBeforePurge(st, key, task_id, dag_id, run_id, map_index) ==
    UNION {
        IF ref.raised # "none" THEN {ref}
        ELSE LET msg == DeleteXCom(key, dag_id, task_id, run_id) IN
             UNION {
                {LET evs == ref.trace \o <<Event("send", msg), Event("recv", r.resp),
                                           Event("purge", ref.ret)>>
                 IN  IF p # "none" THEN Raise(p, evs, r.store)
                     ELSE Return(PyNone, evs, r.store) :
                    p \in purge(ref.ret)} :
                r \in SUPERVISOR_COMMS_send(ref.store, msg)} :
        ref \in get_xcom_db_ref(st, key, dag_id, task_id, run_id, map_index)}

\* BaseXCom.delete
XCom_delete(st, key, task_id, dag_id, run_id, map_index) ==
    UNION {
        IF ref.raised # "none" THEN {ref}
        ELSE UNION {
            IF p # "none"
            THEN {Raise(p, ref.trace \o <<Event("purge", ref.ret)>>, ref.store)}
            ELSE LET msg == DeleteXCom(key, dag_id, task_id, run_id) IN
                 {Return(PyNone,
                         ref.trace \o <<Event("purge", ref.ret), Event("send", msg),
                                        Event("recv", r.resp)>>,
                         r.store) :
                     r \in SUPERVISOR_COMMS_send(ref.store, msg)} :
            p \in purge(ref.ret)} :
        ref \in get_xcom_db_ref(st, key, dag_id, task_id, run_id, map_index)}

\* no XCom operation has run
NoXCom ==
    [op |-> "", key |-> "", value |-> PyNone, dag_id |-> "", task_id |-> "",
     run_id |-> "", map_index |-> None, include_prior_dates |-> FALSE,
     store_before |-> EmptyStore, raised |-> "none", ret |-> PyNone]

----------------------------------------------------------------------------
(* The definition script: calls on the builders it holds *)

\* where the script runs: outside a DAG, in a DAG, in a task group of a DAG,
\* in a DAG whose default_args set the trigger rule
Contexts ==
    { [has_dag |-> FALSE, group |-> NoGroup, dag_default_args |-> EmptyMap],
      [has_dag |-> TRUE, group |-> NoGroup, dag_default_args |-> EmptyMap],
      [has_dag |-> TRUE, group |-> <<"g">>, dag_default_args |-> EmptyMap],
      [has_dag |-> TRUE, group |-> NoGroup,
       dag_default_args |-> [trigger_rule |-> ALWAYS]] }

NoContext == [has_dag |-> FALSE, group |-> NoGroup, dag_default_args |-> EmptyMap]

\* task_decorator_factory: the builder of the function f, as @task, @setup or
\* @teardown leave it
Template(is_teardown) ==
    [kwargs |-> [task_id |-> <<"f">>],
     is_setup |-> FALSE, is_teardown |-> is_teardown,
     on_failure_fail_dagrun |-> FALSE]

\* the script holds no builder
NoBuilders == EmptyMap

CallNames == {"x", "z", "ti"}

ExpandValues == {ListValue(<<1, 2>>), XComArgValue, IntValue(1)}

ExpandArgs == KwargsUpTo(MaxArgs, CallNames, ExpandValues)

PartialArgs == KwargsUpTo(MaxArgs, CallNames, {IntValue(1), IntValue(2)})

OverrideArgs ==
    { [trigger_rule |-> ALWAYS],
      [default_args |-> [trigger_rule |-> ALWAYS]] }

Elems == {XComArgElem, IntElem, DictElem([x |-> IntValue(1)]), DictElem([x |-> XComArgValue])}

RECURSIVE ElemSeqs(_)
ElemSeqs(n) ==
    IF n = 0 THEN {<<>>}
    ELSE LET shorter == ElemSeqs(n - 1) IN
         shorter \cup {Append(s, e) : s \in {t \in shorter : Len(t) = n - 1}, e \in Elems}

ExpandKwargsArgs == {XComArgArg, IntArg} \cup {ListArg(s) : s \in ElemSeqs(MaxElems)}

NotValidated == [func |-> "", kwargs |-> <<>>, res |-> Passed, called |-> FALSE]

NoCall == [desired |-> <<>>, group |-> NoGroup, before |-> {}, ret |-> <<>>, called |-> FALSE]

NoRun == [desired |-> <<>>, group |-> NoGroup, clean |-> FALSE, out |-> <<>>]

NoUnmap ==
    [map_index |-> 0, mapped_kwargs |-> EmptyMap, res |-> Passed,
     op_kwargs |-> EmptyMap, called |-> FALSE]

NotBound ==
    [parameters |-> <<>>, var_keyword |-> FALSE, op_args |-> 0, op_kwargs |-> {},
     validation_only |-> FALSE, res |-> Passed, called |-> FALSE]

NoOp ==
    [op |-> "", slot |-> "", args |-> <<>>, strict |-> FALSE,
     self_before |-> Template(FALSE), ids_before |-> {},
     res |-> Passed, node |-> NoNode]

Init ==
    /\ sig \in Signatures
    /\ ctx \in Contexts
    /\ \E is_teardown \in BOOLEAN :
          builders = [s \in {"template"} |-> Template(is_teardown)]
    /\ task_ids = {}
    /\ store = EmptyStore
    /\ events = <<>>
    /\ xcom = NoXCom
    /\ pc = "ready"
    /\ last = NoOp
    /\ val = NotValidated
    /\ last_id = NoCall
    /\ run = NoRun
    /\ unmapped = NoUnmap
    /\ bound = NotBound

\* the call returned or raised: its outcome is recorded, the builder it was
\* called on is as the call left it, a created node is added to the DAG
Returns(op, slot, args, strict, out) ==
    /\ last' = [op |-> op, slot |-> slot, args |-> args, strict |-> strict,
                self_before |-> builders[slot], ids_before |-> task_ids,
                res |-> out.res, node |-> out.node]
    /\ task_ids' = IF out.node # NoNode /\ ctx.has_dag
                   THEN task_ids \cup {out.node.task_id} ELSE task_ids
    /\ pc' = "returned"

\* b.partial(**kwargs); the builder it returns becomes the derived one
Partial ==
    /\ pc = "ready"
    /\ \E slot \in DOMAIN builders, kwargs \in PartialArgs :
         \E out \in partial(builders[slot], kwargs) :
            /\ Returns("partial", slot, kwargs, FALSE, out)
            /\ builders' = IF out.res = Passed
                           THEN Overlay(builders, [derived |-> out.made])
                           ELSE builders
    /\ UNCHANGED <<sig, ctx, val, idVars, unmapped, bound, xcomVars>>

\* b.override(**kwargs); the builder it returns becomes the derived one
Override ==
    /\ pc = "ready"
    /\ \E slot \in DOMAIN builders, kwargs \in OverrideArgs :
         LET out == override(builders[slot], kwargs) IN
            /\ Returns("override", slot, kwargs, FALSE, out)
            /\ builders' = Overlay(builders, [derived |-> out.made])
    /\ UNCHANGED <<sig, ctx, val, idVars, unmapped, bound, xcomVars>>

\* b.expand(**map_kwargs)
Expand ==
    /\ pc = "ready"
    /\ Cardinality(task_ids) < MaxNodes
    /\ \E slot \in DOMAIN builders, map_kwargs \in ExpandArgs :
         \E out \in expand(builders[slot], task_ids, map_kwargs) :
            /\ Returns("expand", slot, map_kwargs, FALSE, out)
            /\ builders' = [builders EXCEPT ![slot] = out.self]
    /\ UNCHANGED <<sig, ctx, val, idVars, unmapped, bound, xcomVars>>

\* b.expand_kwargs(kwargs, strict=...)
ExpandKwargs ==
    /\ pc = "ready"
    /\ Cardinality(task_ids) < MaxNodes
    /\ \E slot \in DOMAIN builders, kwargs \in ExpandKwargsArgs, strict \in BOOLEAN :
         \E out \in expand_kwargs(builders[slot], task_ids, kwargs, strict) :
            /\ Returns("expand_kwargs", slot, kwargs, strict, out)
            /\ builders' = [builders EXCEPT ![slot] = out.self]
    /\ UNCHANGED <<sig, ctx, val, idVars, unmapped, bound, xcomVars>>

\* MappedOperator.unmap of the node just created, for one map index: the
\* instance's kwargs are resolved and merged, the operator is constructed
Unmap ==
    /\ pc = "returned"
    /\ last.node # NoNode
    /\ ParseTimeInput(last.node)
    /\ \E map_index \in 0..(total_map_length(last.node) - 1) :
         LET mapped == resolve(last.node, map_index)
             kw == get_unmap_kwargs(last.node, mapped, last.node.disallow_kwargs_override)
             built == DecoratedOperator_check(SigParameters(sig), sig.var_keyword, 0,
                                              DOMAIN kw.op_kwargs, FALSE)
         IN unmapped' = [map_index |-> map_index, mapped_kwargs |-> mapped,
                         res |-> IF kw.res # Passed THEN kw.res ELSE built,
                         op_kwargs |-> kw.op_kwargs, called |-> TRUE]
    /\ pc' = "unmapped"
    /\ UNCHANGED <<task_ids, sig, ctx, val, builders, last, idVars, bound, xcomVars>>

\* the script goes on to its next statement
Continue ==
    /\ pc \in {"returned", "unmapped"}
    /\ pc' = "ready"
    /\ last' = NoOp
    /\ unmapped' = NoUnmap
    /\ UNCHANGED <<task_ids, sig, ctx, val, builders, idVars, bound, xcomVars>>

Next == Partial \/ Override \/ Expand \/ ExpandKwargs \/ Unmap \/ Continue

Spec == Init /\ [][Next]_vars

----------------------------------------------------------------------------
(* The life of a builder: decorated with arguments, called, mapped, reused *)

\* where the script runs; the last DAG sets pool_slots in its default_args
TaskContexts ==
    { [has_dag |-> FALSE, group |-> NoGroup, dag_default_args |-> EmptyMap],
      [has_dag |-> TRUE, group |-> NoGroup, dag_default_args |-> EmptyMap],
      [has_dag |-> TRUE, group |-> <<"g">>, dag_default_args |-> EmptyMap],
      [has_dag |-> TRUE, group |-> NoGroup, dag_default_args |-> [pool_slots |-> 0]] }

\* the keyword arguments given to the decorator, @task(**kwargs)
DecoratorKwargs ==
    { EmptyMap,
      [trigger_rule |-> ALWAYS],
      [pool_slots |-> 0],
      [pool_slots |-> 1],
      [default_args |-> [pool_slots |-> 0]] }

\* task_decorator_factory: the builder of the function f with the decorator's
\* kwargs, marked as a setup or a teardown task or not at all
Decorated(kwargs, is_setup, is_teardown) ==
    [kwargs |-> Overlay([task_id |-> <<"f">>], kwargs),
     is_setup |-> is_setup, is_teardown |-> is_teardown,
     on_failure_fail_dagrun |-> FALSE]

TaskCallArgs == KwargsUpTo(MaxArgs, {"x", "y"}, {IntValue(1)})

TaskPartialArgs == KwargsUpTo(1, {"x", "ti"}, {IntValue(1)})

TaskOverrideArgs == { [trigger_rule |-> ALWAYS], [pool_slots |-> 1] }

TaskExpandArgs == KwargsUpTo(1, {"x"}, {ListValue(<<1, 2>>), IntValue(1)})

TaskExpandKwargsArgs == {XComArgArg, IntArg, ListArg(<<DictElem([x |-> IntValue(1)])>>)}

InitTask ==
    /\ sig \in Signatures
    /\ ctx \in TaskContexts
    /\ \E kwargs \in DecoratorKwargs, mark \in {"task", "setup", "teardown"} :
          builders = [s \in {"template"} |->
                         Decorated(kwargs, mark = "setup", mark = "teardown")]
    /\ task_ids = {}
    /\ store = EmptyStore
    /\ events = <<>>
    /\ xcom = NoXCom
    /\ pc = "ready"
    /\ last = NoOp
    /\ val = NotValidated
    /\ last_id = NoCall
    /\ run = NoRun
    /\ unmapped = NoUnmap
    /\ bound = NotBound

\* b(**kwargs): the direct call
CallTask ==
    /\ pc = "ready"
    /\ Cardinality(task_ids) < MaxNodes
    /\ \E slot \in DOMAIN builders, kwargs \in TaskCallArgs :
         \E out \in task_decorator_call(builders[slot], task_ids, kwargs) :
            /\ Returns("call", slot, kwargs, FALSE, out)
            /\ builders' = [builders EXCEPT ![slot] = out.self]
    /\ UNCHANGED <<sig, ctx, val, idVars, unmapped, bound, xcomVars>>

\* b.partial(**kwargs)
PartialTask ==
    /\ pc = "ready"
    /\ \E slot \in DOMAIN builders, kwargs \in TaskPartialArgs :
         \E out \in partial(builders[slot], kwargs) :
            /\ Returns("partial", slot, kwargs, FALSE, out)
            /\ builders' = IF out.res = Passed
                           THEN Overlay(builders, [derived |-> out.made])
                           ELSE builders
    /\ UNCHANGED <<sig, ctx, val, idVars, unmapped, bound, xcomVars>>

\* b.override(**kwargs)
OverrideTask ==
    /\ pc = "ready"
    /\ \E slot \in DOMAIN builders, kwargs \in TaskOverrideArgs :
         LET out == override(builders[slot], kwargs) IN
            /\ Returns("override", slot, kwargs, FALSE, out)
            /\ builders' = Overlay(builders, [derived |-> out.made])
    /\ UNCHANGED <<sig, ctx, val, idVars, unmapped, bound, xcomVars>>

\* b.expand(**map_kwargs)
ExpandTask ==
    /\ pc = "ready"
    /\ Cardinality(task_ids) < MaxNodes
    /\ \E slot \in DOMAIN builders, map_kwargs \in TaskExpandArgs :
         \E out \in expand(builders[slot], task_ids, map_kwargs) :
            /\ Returns("expand", slot, map_kwargs, FALSE, out)
            /\ builders' = [builders EXCEPT ![slot] = out.self]
    /\ UNCHANGED <<sig, ctx, val, idVars, unmapped, bound, xcomVars>>

\* b.expand_kwargs(kwargs), strict as by default
ExpandKwargsTask ==
    /\ pc = "ready"
    /\ Cardinality(task_ids) < MaxNodes
    /\ \E slot \in DOMAIN builders, kwargs \in TaskExpandKwargsArgs :
         \E out \in expand_kwargs(builders[slot], task_ids, kwargs, TRUE) :
            /\ Returns("expand_kwargs", slot, kwargs, TRUE, out)
            /\ builders' = [builders EXCEPT ![slot] = out.self]
    /\ UNCHANGED <<sig, ctx, val, idVars, unmapped, bound, xcomVars>>

NextTask ==
    CallTask \/ PartialTask \/ OverrideTask \/ ExpandTask \/ ExpandKwargsTask \/ Continue

SpecTask == InitTask /\ [][NextTask]_vars

----------------------------------------------------------------------------
(* Argument-name validation on its own *)

ValidateNames == {"x", "y", "z", "w", "ti", "ds"}

ValidateValues == {ListValue(<<1, 2>>), IntValue(1)}

ValidateKwargs == KwargsUpTo(MaxValidateArgs, ValidateNames, ValidateValues)

\* the call to make is drawn at the start
InitValidate ==
    /\ sig \in Signatures
    /\ \E func \in {"partial", "expand"}, kwargs \in ValidateKwargs :
          val = [func |-> func, kwargs |-> kwargs, res |-> Passed, called |-> FALSE]
    /\ task_ids = {}
    /\ store = EmptyStore
    /\ events = <<>>
    /\ xcom = NoXCom
    /\ last_id = NoCall
    /\ run = NoRun
    /\ ctx = NoContext
    /\ builders = NoBuilders
    /\ pc = "ready"
    /\ last = NoOp
    /\ unmapped = NoUnmap
    /\ bound = NotBound

\* self._validate_arg_names(func, kwargs), as partial() and expand() call it
Validate ==
    /\ ~val.called
    /\ \E res \in TaskDecorator_validate_arg_names(sig.params, sig.var_keyword,
                                                  val.func, val.kwargs) :
          val' = [val EXCEPT !.res = res, !.called = TRUE]
    /\ UNCHANGED <<task_ids, last_id, run, sig, ctx, builders, pc, last, unmapped, bound,
                   xcomVars>>

NextValidate == Validate

SpecValidate == InitValidate /\ [][NextValidate]_vars

----------------------------------------------------------------------------
(* The signature check of DecoratedOperator on its own *)

\* the parameter lists of the wrapped functions the model draws from:
\* f(x), f(x, y), f(x, y=1), f(x, ti), f(ti, x), f(x, ti=None), f(x, ti=1)
ParameterLists ==
    { <<Param("x", "empty")>>,
      <<Param("x", "empty"), Param("y", "empty")>>,
      <<Param("x", "empty"), Param("y", "value")>>,
      <<Param("x", "empty"), Param("ti", "empty")>>,
      <<Param("ti", "empty"), Param("x", "empty")>>,
      <<Param("x", "empty"), Param("ti", "None")>>,
      <<Param("x", "empty"), Param("ti", "value")>> }

BindNames == {"x", "y", "z", "ti"}

InitBind ==
    /\ \E parameters \in ParameterLists, var_keyword \in BOOLEAN,
          op_args \in 0..MaxPositional, op_kwargs \in SUBSET BindNames,
          validation_only \in BOOLEAN :
          bound = [parameters |-> parameters, var_keyword |-> var_keyword,
                   op_args |-> op_args, op_kwargs |-> op_kwargs,
                   validation_only |-> validation_only,
                   res |-> Passed, called |-> FALSE]
    /\ task_ids = {}
    /\ store = EmptyStore
    /\ events = <<>>
    /\ xcom = NoXCom
    /\ last_id = NoCall
    /\ run = NoRun
    /\ sig = NoSignature
    /\ val = NotValidated
    /\ ctx = NoContext
    /\ builders = NoBuilders
    /\ pc = "ready"
    /\ last = NoOp
    /\ unmapped = NoUnmap

\* DecoratedOperator.__init__ checks the signature and binds the arguments
Bind ==
    /\ ~bound.called
    /\ bound' = [bound EXCEPT
                    !.res = DecoratedOperator_check(bound.parameters, bound.var_keyword,
                                                    bound.op_args, bound.op_kwargs,
                                                    bound.validation_only),
                    !.called = TRUE]
    /\ UNCHANGED <<task_ids, last_id, run, sig, val, ctx, builders, pc, last, unmapped,
                   xcomVars>>

NextBind == Bind

SpecBind == InitBind /\ [][NextBind]_vars

----------------------------------------------------------------------------
(* The id allocator on its own: node creations in one DAG *)

\* the desired ids the node creations draw from
DesiredIds ==
    { <<"t">>,
      <<"t", "_", "_", "1">>,
      <<"t", "_", "_", "3">>,
      <<"g", "x", "t", "_", "_", "7">>,
      <<"a", ".", "b">>,
      <<"a", "x", "b", "_", "_", "2">> }

Groups == {NoGroup, <<"g">>}

\* id is stem followed by __<digits>, character for character
HasFormStemN(stem, id) ==
    /\ Len(id) >= Len(stem) + 3
    /\ SubSeq(id, 1, Len(stem) + 2) = stem \o <<"_", "_">>
    /\ AllDigits(SubSeq(id, Len(stem) + 3, Len(id)))

\* the scope holds neither the qualified id nor the qualified id followed by __N
ScopeClean(task_group, task_id, ids) ==
    LET q == QualifiedId(task_group, task_id) IN
    /\ q \notin ids
    /\ \A id \in ids : ~HasFormStemN(q, id)

InitId ==
    /\ task_ids = {}
    /\ store = EmptyStore
    /\ events = <<>>
    /\ xcom = NoXCom
    /\ last_id = NoCall
    /\ run = NoRun
    /\ sig = NoSignature
    /\ val = NotValidated
    /\ ctx = NoContext
    /\ builders = NoBuilders
    /\ pc = "ready"
    /\ last = NoOp
    /\ unmapped = NoUnmap
    /\ bound = NotBound

\* one node creation: get_unique_task_id, then the node joins the DAG under
\* its group-qualified id (BaseOperator / MappedOperator construction)
CreateNode ==
    /\ Cardinality(task_ids) < MaxCreate
    /\ \E d \in DesiredIds, g \in Groups :
        LET ret == get_unique_task_id(d, TRUE, task_ids, g)
            same == run.desired = d /\ run.group = g /\ run.out # <<>>
        IN
        /\ last_id' = [desired |-> d, group |-> g, before |-> task_ids,
                       ret |-> ret, called |-> TRUE]
        /\ run' = IF same
                  THEN [run EXCEPT !.out = Append(@, ret)]
                  ELSE [desired |-> d, group |-> g,
                        clean |-> ScopeClean(g, d, task_ids), out |-> <<ret>>]
        /\ task_ids' = task_ids \cup {QualifiedId(g, ret)}
    /\ UNCHANGED <<sig, val, ctx, builders, pc, last, unmapped, bound, xcomVars>>

NextId == CreateNode

SpecId == InitId /\ [][NextId]_vars

----------------------------------------------------------------------------
(* The XCom client on its own: operations of a task against the supervisor *)

XComValues == {PyNone, PyStr(<<"1">>), PyList(<<PyInt(1), PyStr(<<"a">>)>>)}

\* the map_index argument of a call: left out (None), or an index
MapIndexArgs == {None} \cup {<<i>> : i \in UNMAPPED..MaxXComIndex}

InitXCom ==
    /\ task_ids = {}
    /\ store = EmptyStore
    /\ events = <<>>
    /\ xcom = NoXCom
    /\ last_id = NoCall
    /\ run = NoRun
    /\ sig = NoSignature
    /\ val = NotValidated
    /\ ctx = NoContext
    /\ builders = NoBuilders
    /\ pc = "ready"
    /\ last = NoOp
    /\ unmapped = NoUnmap
    /\ bound = NotBound

\* the operation returned or raised: its arguments and outcome are recorded,
\* the supervisor's table is as the requests left it
Done(op, row, value, map_index, include_prior_dates, out) ==
    /\ xcom' = [op |-> op, key |-> row.key, value |-> value, dag_id |-> row.dag_id,
                task_id |-> row.task_id, run_id |-> row.run_id, map_index |-> map_index,
                include_prior_dates |-> include_prior_dates,
                store_before |-> store, raised |-> out.raised, ret |-> out.ret]
    /\ events' = out.trace
    /\ store' = out.store
    /\ UNCHANGED <<task_ids, last_id, run, sig, val, ctx, builders, pc, last, unmapped,
                   bound>>

\* XCom.set(key, value, dag_id=, task_id=, run_id=), with map_index= or without
Set ==
    \E row \in XComRows, value \in XComValues, map_index \in MapIndexArgs :
        \E out \in XCom_set(store, row.key, value, row.dag_id, row.task_id, row.run_id,
                            map_index) :
            Done("set", row, value, map_index, FALSE, out)

\* XCom.get_one(key=, dag_id=, task_id=, run_id=), with map_index= or without
GetOne ==
    \E row \in XComRows, map_index \in MapIndexArgs, include_prior_dates \in BOOLEAN :
        \E out \in get_one(store, row.key, row.dag_id, row.task_id, row.run_id,
                           map_index, include_prior_dates) :
            Done("get_one", row, PyNone, map_index, include_prior_dates, out)

\* XCom.get_value(ti_key=, key=)
GetValue ==
    \E row \in XComRows, i \in UNMAPPED..MaxXComIndex :
        \E out \in get_value(store,
                             [dag_id |-> row.dag_id, task_id |-> row.task_id,
                              run_id |-> row.run_id, map_index |-> i],
                             row.key) :
            Done("get_value", row, PyNone, <<i>>, FALSE, out)

\* XCom.get_all(key=, dag_id=, task_id=, run_id=)
GetAll ==
    \E row \in XComRows, include_prior_dates \in BOOLEAN :
        \E out \in get_all(store, row.key, row.dag_id, row.task_id, row.run_id,
                           include_prior_dates) :
            Done("get_all", row, PyNone, None, include_prior_dates, out)

\* XCom.delete(key, task_id, dag_id, run_id), with map_index or without
Delete ==
    \E row \in XComRows, map_index \in MapIndexArgs :
        \E out \in XCom_delete(store, row.key, row.task_id, row.dag_id, row.run_id,
                               map_index) :
            Done("delete", row, PyNone, map_index, FALSE, out)

NextXCom == Set \/ GetOne \/ GetValue \/ GetAll \/ Delete

SpecXCom == InitXCom /\ [][NextXCom]_vars

----------------------------------------------------------------------------
(* Properties of the id allocator *)

\* every id handed out was absent from dag.task_ids when it was returned
FreshWhenReturned ==
    last_id.called =>
        QualifiedId(last_id.group, last_id.ret) \notin last_id.before

\* the i-th id of a streak from the desired id t: t, t__1, t__2, ...
StreakId(t, i) == IF i = 1 THEN t ELSE t \o <<"_", "_">> \o IntToStr(i - 1)

\* C1: after any sequence of node creations every id was absent from
\* dag.task_ids when it was returned, and k creations from one desired id t
\* (t without a numeric suffix of its own) in a scope that held neither t nor
\* t__N when the streak began yield t, t__1, ..., t__(k-1) in that order.
C1_FreshIdsAndStreak ==
    /\ FreshWhenReturned
    /\ (run.clean /\ SplitSuffix(run.desired) = run.desired) =>
          \A i \in 1..Len(run.out) : run.out[i] = StreakId(run.desired, i)

\* C2: a desired id whose group-qualified form is not in the used set is
\* returned unchanged.
C2_UnusedIdUnchanged ==
    (last_id.called
        /\ QualifiedId(last_id.group, last_id.desired) \notin last_id.before)
    => last_id.ret = last_id.desired

\* an unused id was asked for in a group while the DAG already held tasks
C2_Witness ==
    /\ last_id.called
    /\ last_id.group # NoGroup
    /\ last_id.before # {}
    /\ QualifiedId(last_id.group, last_id.desired) \notin last_id.before
    /\ last_id.ret = last_id.desired

\* the numeric maximum of N over the used ids that are stem__N, 0 without any
MaxUsedSuffix(stem, ids) ==
    SetMax({StrToInt(SubSeq(id, Len(stem) + 3, Len(id))) :
                id \in {j \in ids : HasFormStemN(stem, j)}} \cup {0})

\* C3: a desired id that is already used gets stem__(m+1), m the numeric
\* maximum of N over the used ids of the form stem__N (0 when there is none),
\* stem the desired id without its trailing __<digits>.
C3_MaxPlusOne ==
    (last_id.called
        /\ QualifiedId(last_id.group, last_id.desired) \in last_id.before)
    => LET stem == SplitSuffix(last_id.desired)
           qstem == QualifiedId(last_id.group, stem)
       IN  last_id.ret =
              stem \o <<"_", "_">> \o IntToStr(MaxUsedSuffix(qstem, last_id.before) + 1)

\* the gap-tolerant case of C3: used {t, t__1, t__3}, desired t, result t__4
GapTolerantCase ==
    (last_id.called
        /\ last_id.desired = <<"t">> /\ last_id.group = NoGroup
        /\ last_id.before = {<<"t">>, <<"t", "_", "_", "1">>, <<"t", "_", "_", "3">>})
    => last_id.ret = <<"t", "_", "_", "4">>

----------------------------------------------------------------------------
(* Properties of argument-name validation *)

\* the supplied keys that are no declared parameter, in the order supplied
UnexpectedKeys(kwargs) == KwKeySeq(SelectSeq(kwargs, LAMBDA p : p.k \notin sig.params))

\* the declared parameters that were supplied an unmappable value
UnmappableParams(kwargs) ==
    {n \in sig.params \cap KwKeys(kwargs) : ~is_mappable(KwGet(kwargs, n))}

\* with **kwargs every key is accepted; without, the unexpected keys are
\* rejected by an unexpected-keyword error naming exactly them, in order
NamesValidated ==
    /\ sig.var_keyword => val.res = Passed
    /\ (~sig.var_keyword /\ UnexpectedKeys(val.kwargs) # <<>>) =>
          /\ val.res.err = "TypeError"
          /\ val.res.names = UnexpectedKeys(val.kwargs)
          /\ val.res.why = IF Len(val.res.names) = 1
                           THEN "unexpected keyword argument"
                           ELSE "unexpected keyword arguments"

\* C6 as claimed: in partial() and expand(), with a catch-all keyword
\* parameter every supplied key is accepted, and without one every supplied
\* key that is no declared parameter is rejected by an unexpected-keyword
\* error naming exactly the unexpected keys in the order supplied (reserved
\* context keys, which C8 is about, left aside).
C6_Original ==
    (val.called /\ KwKeys(val.kwargs) \cap KNOWN_CONTEXT_KEYS = {}) => NamesValidated

\* C6 as amended: the same, for the calls that supply no reserved context key
\* and, in expand(), no unmappable value for a declared parameter (those two
\* checks come first and raise their own errors).
C6_UnexpectedKeysNamed ==
    (val.called
        /\ KwKeys(val.kwargs) \cap KNOWN_CONTEXT_KEYS = {}
        /\ (val.func = "partial" \/ UnmappableParams(val.kwargs) = {}))
    => NamesValidated

\* declared {x, y}, supplied x, y, z, w to expand(): the error names z, w
C6_Witness ==
    /\ val.called /\ val.func = "expand"
    /\ sig.params = {"x", "y"} /\ ~sig.var_keyword
    /\ KwKeySeq(val.kwargs) = <<"x", "y", "z", "w">>
    /\ val.res.names = <<"z", "w">>

----------------------------------------------------------------------------
(* Properties of the builder *)

IsCall(op) == pc = "returned" /\ last.op = op

RaisedNoNode ==
    /\ last.res.err # "none"
    /\ last.node = NoNode
    /\ task_ids = last.ids_before

PartialKeys(b) == DOMAIN MapGet(b.kwargs, "op_kwargs", EmptyMap)

\* C4: on a builder reached through partial() calls, expand(a=X) with a bound
\* by one of them raises and creates no mapped node.
C4_ExpandOfPartialKeyRaises ==
    (IsCall("expand") /\ KwKeys(last.args) \cap PartialKeys(last.self_before) # {})
    => RaisedNoNode

\* C5: expand() without keyword arguments raises "no arguments to expand
\* against" and creates no node, whatever the builder and the context are.
C5_EmptyExpandRaises ==
    (IsCall("expand") /\ last.args = <<>>)
    => /\ RaisedNoNode
       /\ last.res = Raised("TypeError", "no arguments to expand against", <<>>, "")
       /\ builders[last.slot] = last.self_before

\* expand() without arguments on a teardown builder that has partial kwargs
\* and the trigger rule 'always', inside a DAG
C5_Witness ==
    /\ IsCall("expand") /\ last.args = <<>>
    /\ ctx.has_dag
    /\ last.self_before.is_teardown
    /\ PartialKeys(last.self_before) # {}
    /\ MapGet(last.self_before.kwargs, "trigger_rule", "") = ALWAYS
    /\ last.res.err = "TypeError"

\* C7: expand() with an unmappable value for a declared parameter raises and
\* creates no mapped node.
C7_UnmappableValueRaises ==
    (IsCall("expand") /\ UnmappableParams(last.args) # {})
    => RaisedNoNode

\* a call rejected for a reserved context key: the error names the keys
ContextKeysNamed ==
    /\ RaisedNoNode
    /\ last.res.err = "ValueError"
    /\ last.res.why \in {"context variable", "context variables"}
    /\ {last.res.names[i] : i \in 1..Len(last.res.names)}
          = KwKeys(last.args) \cap KNOWN_CONTEXT_KEYS

SuppliesContextKey ==
    /\ pc = "returned" /\ last.op \in {"expand", "partial"}
    /\ KwKeys(last.args) \cap KNOWN_CONTEXT_KEYS # {}

\* C8 as claimed: every expand() or partial() call that supplies a reserved
\* context key is rejected by the error that names the key or keys, before
\* the unexpected-keyword and value-shape checks.
C8_Original == SuppliesContextKey => ContextKeysNamed

\* expand() stopped by its trigger-rule test, which comes before the names
StoppedByTriggerRule ==
    /\ last.op = "expand"
    /\ MapGet(last.self_before.kwargs, "trigger_rule", "") = ALWAYS
    /\ HasXComArg(last.args)

\* C8 as amended: the same, except for an expand() call on a builder whose
\* trigger_rule is 'always' with an XComArg among the values: that call is
\* rejected by the trigger-rule test, which comes first and names no key.
C8_ContextKeysRejected ==
    (SuppliesContextKey /\ ~StoppedByTriggerRule) => ContextKeysNamed

\* expand() with a context key next to an unexpected key or an unmappable
\* value of a declared parameter: the context-key error is the one raised
C8_Witness ==
    /\ SuppliesContextKey /\ last.op = "expand"
    /\ ~sig.var_keyword
    /\ (UnexpectedKeys(last.args) # <<"ti">> \/ UnmappableParams(last.args) # {})
    /\ last.res.why = "context variable"

\* the trigger rule of a node
NodeTriggerRule(node) == MapGet(node.partial_kwargs, "trigger_rule", ALL_SUCCESS)

\* the trigger rule the builder's task gets: its own, else the default_args'
TaskTriggerRule(b) ==
    MapGet(Overlay(get_merged_defaults(ctx.dag_default_args,
                                       MapGet(b.kwargs, "default_args", EmptyMap)),
                   Without(b.kwargs, {"default_args"})),
           "trigger_rule", ALL_SUCCESS)

\* C9: expand() with an XComArg among the values on a task whose trigger rule
\* is 'always' raises and creates no mapped node; expand() never creates a
\* mapped node with the trigger rule 'always' and an XComArg in its input.
C9_AlwaysWithXComArgRaises ==
    IsCall("expand") =>
        /\ (HasXComArg(last.args) /\ TaskTriggerRule(last.self_before) = ALWAYS)
              => RaisedNoNode
        /\ last.node # NoNode =>
              ~(NodeTriggerRule(last.node) = ALWAYS /\ HasXComArg(last.node.expand_input))

\* the argument of expand_kwargs() is an XComArg or holds one, as an element
\* or as a value of an element mapping
HoldsXComArg(kwargs) ==
    \/ kwargs.kind = "XComArg"
    \/ \E i \in 1..Len(kwargs.elems) :
          \/ kwargs.elems[i].kind = "XComArg"
          \/ /\ kwargs.elems[i].kind = "dict"
             /\ \E n \in DOMAIN kwargs.elems[i].map :
                   kwargs.elems[i].map[n].kind = "XComArg"

\* C10: expand_kwargs() on a task whose trigger rule is 'always', with an
\* argument that is an XComArg or holds one, raises and creates no mapped node.
C10_KwargsAlwaysWithXComArgRaises ==
    (IsCall("expand_kwargs")
        /\ MapGet(last.self_before.kwargs, "trigger_rule", "") = ALWAYS
        /\ HoldsXComArg(last.args))
    => RaisedNoNode

\* the shapes in the argument of expand_kwargs() that are not allowed: the
\* argument itself when it is neither an XComArg nor a sequence, else the
\* elements that are neither an XComArg nor a mapping
OffendingKinds(kwargs) ==
    IF kwargs.kind = "list"
    THEN {kwargs.elems[i].kind : i \in {j \in 1..Len(kwargs.elems) :
                                          kwargs.elems[j].kind \notin {"XComArg", "dict"}}}
    ELSE IF kwargs.kind = "XComArg" THEN {} ELSE {kwargs.kind}

\* C11: expand_kwargs() raises no type error for an XComArg or a sequence of
\* XComArg and mapping elements; every other argument is rejected with a
\* TypeError that names the type of the offending element, and no mapped node
\* is created.
C11_ExpandKwargsShape ==
    IsCall("expand_kwargs") =>
        IF OffendingKinds(last.args) = {}
        THEN last.res.err \notin {"TypeError", "AttributeError"}
        ELSE /\ RaisedNoNode
             /\ last.res.err = "TypeError"
             /\ last.res.tname \in OffendingKinds(last.args)

----------------------------------------------------------------------------
(* Properties of the instances of a mapped node *)

NodePartialKwargs == last.node.partial_kwargs["op_kwargs"]

\* C12: a node made by expand() is never strict, one made by expand_kwargs()
\* is as strict as the call asked; unmapping a strict node rejects every key
\* that is both partial and mapped; unmapping any other node gives op_kwargs
\* that are the partial kwargs with the instance's kwargs laid over them.
C12_UnmapStrictness ==
    /\ (pc = "returned" /\ last.node # NoNode) =>
          last.node.disallow_kwargs_override = (last.op = "expand_kwargs" /\ last.strict)
    /\ pc = "unmapped" =>
          LET part == NodePartialKwargs
              inst == unmapped.mapped_kwargs
          IN IF last.node.disallow_kwargs_override
             THEN DOMAIN part \cap DOMAIN inst # {} =>
                     /\ unmapped.res.err = "TypeError"
                     /\ unmapped.res.why \in {"mapping already partial argument",
                                              "mapping already partial arguments"}
             ELSE /\ DOMAIN unmapped.op_kwargs = DOMAIN part \cup DOMAIN inst
                  /\ \A k \in DOMAIN inst : unmapped.op_kwargs[k] = inst[k]
                  /\ \A k \in DOMAIN part \ DOMAIN inst : unmapped.op_kwargs[k] = part[k]

\* a node that is not strict, unmapped with a key that is both partial and
\* mapped with two different values, next to a partial key that is not mapped
C12_Witness ==
    /\ pc = "unmapped"
    /\ ~last.node.disallow_kwargs_override
    /\ \E k \in DOMAIN NodePartialKwargs \cap DOMAIN unmapped.mapped_kwargs :
          NodePartialKwargs[k] # unmapped.mapped_kwargs[k]
    /\ DOMAIN NodePartialKwargs \ DOMAIN unmapped.mapped_kwargs # {}
    /\ unmapped.res = Passed

----------------------------------------------------------------------------
(* Properties of partial() and override() *)

OpKwargs(b) == MapGet(b.kwargs, "op_kwargs", EmptyMap)

\* a step in which the script calls op
Calls(op) == pc = "ready" /\ pc' = "returned" /\ last'.op = op

\* partial() adds its kwargs to the ones bound so far, or raises on a key
\* bound before and leaves the script's builders as they were
PartialStep ==
    Calls("partial") =>
        LET self == builders[last'.slot]
            kwargs == last'.args
        IN IF KwKeys(kwargs) \cap DOMAIN OpKwargs(self) # {}
           THEN /\ last'.res.err # "none"
                /\ builders' = builders /\ task_ids' = task_ids
           ELSE IF last'.res = Passed
           THEN LET made == builders'["derived"] IN
                /\ DOMAIN OpKwargs(made) = DOMAIN OpKwargs(self) \cup KwKeys(kwargs)
                /\ \A k \in KwKeys(kwargs) : OpKwargs(made)[k] = KwGet(kwargs, k)
                /\ \A k \in DOMAIN OpKwargs(self) : OpKwargs(made)[k] = OpKwargs(self)[k]
                /\ Without(made.kwargs, {"op_kwargs"}) = Without(self.kwargs, {"op_kwargs"})
           ELSE builders' = builders /\ task_ids' = task_ids

\* C13: every successful partial() call gives a builder whose partial kwargs
\* are those bound before plus the call's own, each key with the value of the
\* call that supplied it; a partial() call with a key bound before raises and
\* gives no builder.
C13_PartialKwargsAccumulate == [][PartialStep]_vars

\* a second partial() call has succeeded, binding another key to another value
C13_Witness ==
    /\ IsCall("partial") /\ last.res = Passed
    /\ last.args # <<>>
    /\ \E k \in PartialKeys(last.self_before) :
          last.self_before.kwargs["op_kwargs"][k] # last.args[1].v
    /\ DOMAIN OpKwargs(builders["derived"]) =
          PartialKeys(last.self_before) \cup KwKeys(last.args)

\* override() gives a builder with the new kwargs laid over the original's
\* and with the original's flags, and leaves the original as it was
OverrideStep ==
    Calls("override") =>
        LET self == builders[last'.slot]
            kw == last'.args
            made == builders'["derived"]
        IN /\ last'.res = Passed
           /\ DOMAIN made.kwargs = DOMAIN self.kwargs \cup DOMAIN kw
           /\ \A k \in DOMAIN kw : made.kwargs[k] = kw[k]
           /\ \A k \in DOMAIN self.kwargs \ DOMAIN kw : made.kwargs[k] = self.kwargs[k]
           /\ made.is_setup = self.is_setup
           /\ made.is_teardown = self.is_teardown
           /\ made.on_failure_fail_dagrun = self.on_failure_fail_dagrun
           /\ last'.slot = "template" => builders'["template"] = self
           /\ task_ids' = task_ids

\* a call on the derived builder leaves the builder it was derived from alone
DerivedStep ==
    (pc = "ready" /\ pc' = "returned" /\ last'.slot = "derived")
    => builders'["template"] = builders["template"]

\* C14: override(**kw) returns a new builder with kw merged over the original's
\* kwargs and with the original's setup, teardown and failure flags; the
\* original is the same after the call, and after any later call on the new
\* builder.
C14_OverrideCopies == [][OverrideStep /\ DerivedStep]_vars

\* override() of a key the teardown template already holds with another value
C14_Witness ==
    /\ IsCall("override") /\ last.slot = "template"
    /\ last.self_before.is_teardown
    /\ \E k \in DOMAIN last.args \cap DOMAIN last.self_before.kwargs :
          /\ last.args[k] # last.self_before.kwargs[k]
          /\ builders["derived"].kwargs[k] = last.args[k]
    /\ builders["template"] = last.self_before

----------------------------------------------------------------------------
(* Properties of the life of a builder *)

\* the operations that produce a node
NodeOps == {"call", "expand", "expand_kwargs"}

\* C15: on a teardown builder, a direct call, expand() or expand_kwargs()
\* raises when the builder's kwargs hold a trigger rule, and every node it
\* produces has the trigger rule 'all done, setup success'.
C15_TeardownRuleForced ==
    (pc = "returned" /\ last.op \in NodeOps /\ last.self_before.is_teardown) =>
        /\ "trigger_rule" \in DOMAIN last.self_before.kwargs => RaisedNoNode
        /\ last.node # NoNode => NodeTriggerRule(last.node) = ALL_DONE_SETUP_SUCCESS

\* the pool_slots the builder's task gets: its own, else the default_args'
TaskPoolSlots(b) ==
    MapGet(Overlay(get_merged_defaults(ctx.dag_default_args,
                                       MapGet(b.kwargs, "default_args", EmptyMap)),
                   Without(b.kwargs, {"default_args"})),
           "pool_slots", 1)

PoolSlotsError ==
    last.res.why \in {"pool slots cannot be less than 1, in dag",
                      "pool slots cannot be less than 1"}

\* the id the node of the call would get
FinalTaskId ==
    QualifiedId(ctx.group,
                get_unique_task_id(last.self_before.kwargs["task_id"], ctx.has_dag,
                                   last.ids_before, ctx.group))

\* C16: expand() and expand_kwargs() on a task whose pool_slots, its own or
\* the default arguments', is below 1 raise and create no node, and the
\* pool-slots error names the final task id, and the DAG when there is one;
\* with pool_slots of 1 or more no pool-slots error is raised.
C16_PoolSlotsChecked ==
    (pc = "returned" /\ last.op \in {"expand", "expand_kwargs"}) =>
        /\ TaskPoolSlots(last.self_before) < 1 => RaisedNoNode
        /\ TaskPoolSlots(last.self_before) >= 1 => ~PoolSlotsError
        /\ PoolSlotsError =>
              /\ last.res.err = "ValueError"
              /\ last.res.names = <<FinalTaskId>>
              /\ ctx.has_dag = (last.res.why = "pool slots cannot be less than 1, in dag")
        /\ (last.res = Passed /\ "pool_slots" \in DOMAIN last.node.partial_kwargs)
              => last.node.partial_kwargs["pool_slots"] >= 1

\* expand() in the task group g with pool_slots 0 coming from the decorator's
\* default_args: the error names g.f and the DAG
C16_Witness ==
    /\ IsCall("expand") /\ PoolSlotsError
    /\ ctx.group = <<"g">>
    /\ "pool_slots" \notin DOMAIN last.self_before.kwargs
    /\ last.res.names = << <<"g", ".", "f">> >>
    /\ last.node = NoNode

\* C17: a successful direct call, expand() or expand_kwargs() leaves the
\* builder it was called on with the kwargs and flags it had before the call,
\* so that the call can be repeated on it.
C17_BuilderUnchangedBySuccess ==
    (pc = "returned" /\ last.op \in NodeOps /\ last.res = Passed)
    => builders[last.slot] = last.self_before

\* C18: a direct call, partial(), expand() or expand_kwargs() that raises
\* leaves the DAG's task ids and the builder's kwargs and flags as they were
\* before the call, and has created no node.
C18_RaiseChangesNothing ==
    (pc = "returned" /\ last.op \in NodeOps \cup {"partial"} /\ last.res.err # "none")
    => /\ RaisedNoNode
       /\ builders[last.slot] = last.self_before

----------------------------------------------------------------------------
(* Properties of expand() end to end *)

\* expand(n=[v0, ..., v(k-1)]) has succeeded
ExpandedOneList ==
    /\ last.op = "expand" /\ last.res = Passed
    /\ Len(last.args) = 1 /\ last.args[1].v.kind = "list"

\* C19: expand(n=[v0, ..., v(k-1)]) produces a mapped node whose input is the
\* dict-of-lists holding exactly the supplied mapping, of k instances; the
\* instance of map index i gets as op_kwargs the partial kwargs and n bound to
\* vi, and is constructed when the function's parameters are all supplied.
C19_ExpandEndToEnd ==
    /\ (pc \in {"returned", "unmapped"} /\ ExpandedOneList) =>
          /\ last.node.expand_input_type = "dict-of-lists"
          /\ last.node.expand_input = last.args
          /\ total_map_length(last.node) = Len(last.args[1].v.items)
          /\ last.node.partial_kwargs["op_kwargs"] = OpKwargs(last.self_before)
    /\ (pc = "unmapped" /\ ExpandedOneList) =>
          LET n == last.args[1].k
              part == OpKwargs(last.self_before)
          IN /\ unmapped.map_index \in 0..(Len(last.args[1].v.items) - 1)
             /\ DOMAIN unmapped.op_kwargs = DOMAIN part \cup {n}
             /\ unmapped.op_kwargs[n] = IntValue(last.args[1].v.items[unmapped.map_index + 1])
             /\ \A k \in DOMAIN part \ {n} : unmapped.op_kwargs[k] = part[k]
             /\ ParamNames(SigParameters(sig)) \subseteq DOMAIN unmapped.op_kwargs
                   => unmapped.res = Passed

\* partial(z=...) then expand(x=[1, 2]): the instance of map index 1 gets x = 2
\* next to z
C19_Witness ==
    /\ pc = "unmapped" /\ ExpandedOneList
    /\ unmapped.map_index = 1
    /\ last.args[1].k = "x"
    /\ unmapped.op_kwargs["x"] = IntValue(2)
    /\ "z" \in DOMAIN unmapped.op_kwargs
    /\ unmapped.res = Passed

----------------------------------------------------------------------------
(* Properties of the signature check *)

\* the parameters the positional arguments fill
FilledByPosition ==
    {bound.parameters[i].name : i \in 1..bound.op_args \cap 1..Len(bound.parameters)}

\* every supplied argument binds to a declared parameter of its own
EveryArgumentBinds ==
    /\ bound.op_args <= Len(bound.parameters)
    /\ bound.op_kwargs \cap FilledByPosition = {}
    /\ bound.var_keyword \/ bound.op_kwargs \subseteq ParamNames(bound.parameters)

\* the parameters without a default, context keys counting as defaulted
RequiredParams ==
    {bound.parameters[i].name : i \in {j \in 1..Len(bound.parameters) :
        /\ bound.parameters[j].default = "empty"
        /\ bound.parameters[j].name \notin KNOWN_CONTEXT_KEYS}}

\* the signature itself is refused: a context key parameter with a default
\* other than None, or a context key parameter without default that stands
\* before a parameter without default
SignatureRefused ==
    \/ \E i \in 1..Len(bound.parameters) :
          /\ bound.parameters[i].name \in KNOWN_CONTEXT_KEYS
          /\ bound.parameters[i].default = "value"
    \/ \E i, j \in 1..Len(bound.parameters) :
          /\ i < j
          /\ bound.parameters[i].name \in KNOWN_CONTEXT_KEYS
          /\ bound.parameters[j].default = "empty"
          /\ bound.parameters[j].name \notin KNOWN_CONTEXT_KEYS

----------------------------------------------------------------------------
(* Properties of the id allocator: which used ids count *)

\* the ids a DAG of the model can hold
QualifiedIds == {QualifiedId(g, d) : g \in Groups, d \in DesiredIds}

\* C29: only the used ids that are the qualified stem followed by __<digits>
\* influence the suffix get_unique_task_id chooses: adding to the used ids an
\* id that is not of that form (and is not the qualified id itself) never
\* changes the id returned.
C29_OnlyStemSuffixesCount ==
    last_id.called
    => LET q == QualifiedId(last_id.group, last_id.desired)
           qstem == QualifiedId(last_id.group, SplitSuffix(last_id.desired))
       IN  \A other \in QualifiedIds :
              (other # q /\ ~HasFormStemN(qstem, other))
              => get_unique_task_id(last_id.desired, TRUE,
                                    last_id.before \cup {other}, last_id.group)
                    = last_id.ret

----------------------------------------------------------------------------
(* Properties of the XCom client *)

\* the places of the requests sent during the last operation
Sends == {i \in 1..Len(events) : events[i].e = "send"}

\* the places of the responses received during the last operation
Receipts == {i \in 1..Len(events) : events[i].e = "recv"}

\* the kind of response each kind of request calls for
ExpectedKind(kind) ==
    IF kind = "GetXCom" THEN "XComResult"
    ELSE IF kind = "GetXComSequenceSlice" THEN "XComSequenceSliceResult"
    ELSE "OKResponse"

\* the response at place i is not of the kind its request calls for
UnexpectedAt(i) == events[i].msg.kind # ExpectedKind(events[i - 1].msg.kind)

\* C21: for each of the four request kinds (set, get, get-sequence-slice,
\* delete), a response of unexpected kind makes the operation raise the
\* type-mismatch error, return no value, and send no further request.
C21_UnexpectedResponseRaises ==
    \A i \in Receipts :
        UnexpectedAt(i)
        => /\ xcom.raised = "TypeError"
           /\ xcom.ret = PyNone
           /\ \A j \in Sends : j < i

IsGet == xcom.op \in {"get_one", "get_value"}

\* the response to the only request of a get_one / get_value call
Answer == events[2].msg

\* C22: get_one and get_value make a single request; when the result carries
\* no value they log a warning and return None without raising, and when it
\* carries one they return it deserialized, without a warning.
C22_AbsentValueIsNone ==
    IsGet
    => /\ Sends = {1}
       /\ Answer.kind = "XComResult"
          => /\ xcom.raised = "none"
             /\ IF Answer.value = None
                THEN xcom.ret = PyNone /\ events[Len(events)].e = "warning"
                ELSE /\ xcom.ret = deserialize(Answer.value)
                     /\ \A i \in 1..Len(events) : events[i].e # "warning"

\* get_value found no value: it warned and gave None
C22_Witness ==
    /\ xcom.op = "get_value"
    /\ Answer.kind = "XComResult" /\ Answer.value = None
    /\ xcom.raised = "none" /\ xcom.ret = PyNone
    /\ events[3].e = "warning"

\* an operation that takes a map index was called without one
WithoutMapIndex == xcom.op \in {"set", "get_one", "delete"} /\ xcom.map_index = None

\* C23 as stated: every request of set, get_one and delete called without a
\* map index carries the canonical map index -1.
C23_Original ==
    WithoutMapIndex => \A i \in Sends : events[i].msg.map_index = <<UNMAPPED>>

\* C23: set called without a map index sends its request with map index -1;
\* get_one and delete called without one send requests that carry no map
\* index (None), never -1.
C23_DefaultMapIndex ==
    WithoutMapIndex
    => \A i \in Sends :
          events[i].msg.map_index =
             IF xcom.op = "set" THEN <<UNMAPPED>> ELSE None

\* set was called without a map index and its request went out
C23_Witness ==
    /\ xcom.op = "set" /\ xcom.map_index = None
    /\ events[1].e = "send" /\ events[1].msg.kind = "SetXCom"
    /\ events[1].msg.map_index = <<UNMAPPED>>

\* the supervisor served the request at place i of the last operation as its
\* table said, the table being st before the request
ServedFrom(st, i) ==
    /\ events[i + 1].msg = faithful(st, events[i].msg).resp
    /\ store = faithful(st, events[i].msg).store

\* the map index a call is for: the unmapped one when it names none
CalledIndex(call) ==
    IF call.map_index = None THEN UNMAPPED ELSE call.map_index[1]

\* C24: set(key, v, ...) followed by get_one of the same address, both served
\* by a supervisor that stores the string and gives it back unchanged,
\* returns a value equal to v.
RoundTripStep ==
    (/\ xcom.op = "set"
     /\ ServedFrom(xcom.store_before, 1)
     /\ xcom'.op = "get_one"
     /\ xcom'.key = xcom.key /\ xcom'.dag_id = xcom.dag_id
     /\ xcom'.task_id = xcom.task_id /\ xcom'.run_id = xcom.run_id
     /\ CalledIndex(xcom') = CalledIndex(xcom)
     /\ events'[2].msg = faithful(store, events'[1].msg).resp)
    => xcom'.raised = "none" /\ xcom'.ret = xcom.value

C24_RoundTrip == [][RoundTripStep]_vars

\* get_one without a map index gave back the list a set without one stored
C24_Witness ==
    /\ xcom.op = "get_one" /\ xcom.map_index = None
    /\ xcom.store_before[AddressOf(events[1].msg)]
          = serialize(PyList(<<PyInt(1), PyStr(<<"a">>)>>))
    /\ Answer = faithful(xcom.store_before, events[1].msg).resp
    /\ xcom.ret = PyList(<<PyInt(1), PyStr(<<"a">>)>>)

\* C25: get_all returns the deserialized values as a list, one entry per
\* value of the supervisor's slice result in the same order; the list holds
\* no None, and it is the empty list when no value was found.
C25_GetAllIsList ==
    (xcom.op = "get_all" /\ Answer.kind = "XComSequenceSliceResult")
    => /\ xcom.raised = "none"
       /\ xcom.ret.type = "list"
       /\ Len(xcom.ret.items) = Len(Answer.root)
       /\ \A i \in 1..Len(Answer.root) :
             /\ xcom.ret.items[i] = deserialize(Answer.root[i])
             /\ xcom.ret.items[i] # PyNone

\* the lookup request and the delete request of a delete call
LookupRequest == events[1].msg

DeleteRequests == {i \in Sends : events[i].msg.kind = "DeleteXCom"}

\* C27: the delete request of delete addresses the same (key, dag id, task
\* id, run id, map index) as the lookup request before it.
C27_DeleteSameAddress ==
    xcom.op = "delete"
    => \A i \in DeleteRequests : AddressOf(events[i].msg) = AddressOf(LookupRequest)

\* C28: delete looks the reference up, then purges with that reference, then
\* sends the delete request; when the lookup or the purge raises, no delete
\* request is sent.
C28_DeleteOrder ==
    xcom.op = "delete"
    => /\ events[1].e = "send" /\ LookupRequest.kind = "GetXCom"
       /\ \A i \in DeleteRequests :
             /\ i = 4
             /\ events[2].e = "recv" /\ events[2].msg.kind = "XComResult"
             /\ events[3] = Event("purge", events[2].msg)
       /\ xcom.raised # "none" => DeleteRequests = {}
       /\ xcom.raised = "none" => DeleteRequests = {4}
       /\ \A i \in 1..Len(events) : events[i].e = "purge" => i = 3

\* the purge of a delete call raised: the lookup had succeeded, and no delete
\* request followed
C28_Witness ==
    /\ xcom.op = "delete" /\ xcom.raised = "Exception"
    /\ events[2].msg.kind = "XComResult"
    /\ events[Len(events)] = Event("purge", events[2].msg)
    /\ DeleteRequests = {}

====
